---- MODULE Spec2Model ----
(***************************************************************************)
(* The stock scan of discord-rs: the symbol store (symbol_store.rs), the   *)
(* on-demand scan (command/stock/trigger.rs) and the scheduled scan        *)
(* (daily.rs).  One behaviour is one scan: the store is read once, one     *)
(* future per symbol is driven through buffer_unordered(CONCURRENCY), and  *)
(* the single consuming loop batches the hits for the delivery surface.    *)
(* The futures are polled only while the loop awaits tasks.next(), so a    *)
(* task step and the loop iteration that consumes its result are one step. *)
(* Spec is the scan against a store nobody changes; SpecStore is a scan    *)
(* over a small watchlist beside add and remove calls; FairSpec is Spec    *)
(* with every awaited call returning.  SpecCdc is one call of the          *)
(* indicator library (indicators/cdc.rs), SpecSymbols a run of add, remove *)
(* and list calls on symbol texts, and SpecDelete / SpecDeleteWatch the    *)
(* life of one pending-delete session of the delete components             *)
(* (command/stock/delete.rs).                                              *)
(***************************************************************************)
EXTENDS Naturals, Integers, Sequences, FiniteSets, TLC

\* ---------------------------------------------------------------- bounds
\* Size of the symbol universe (symbols are 1..MaxSymbols).
MaxSymbols == 11
\* How many symbol-tasks of one scan are irregular: they may answer while an
\* older task is still in flight, and they may end without a hit.  The other
\* tasks answer in submission order with a hit.
MaxOdd == 1
\* Size of the watchlists of the runs in which the store changes (SpecStore).
MaxWatch == 3
\* How many add/remove calls reach the store in one such run.
MaxStoreOps == 1

\* Longest price series handed to calculate and generate_chart.
MaxLen == 3
\* Prices are 1..MaxPrice.
MaxPrice == 3
\* Discord users that use the delete components (user ids 1..MaxUsers).
MaxUsers == 2
\* How often time advances in one run of the delete components.
MaxTicks == 2
\* Longest symbol text handed to add and remove.
MaxRaw == 2
\* How many add/remove/list calls one run of the store makes.
MaxCalls == 3

\* Longest series of the charts whose every trend pattern is drawn.
MaxShort == 3
\* How far beyond LOOKBACK the long series of the charts go.
MaxOver == 2
\* Longest run of points against the trend in a long series.
MaxRun == 2

\* How many selections of the delete menu are handled side by side.
MaxSelects == 2
\* How many symbols one such selection names.
MaxPick == 2

\* ------------------------------------------------------ program constants
CONCURRENCY == 8
BATCH_SIZE == 10
\* ExponentialMovingAverage::new(12), ::new(26)
FAST_PERIOD == 12
SLOW_PERIOD == 26
\* generate_chart: const LOOKBACK
LOOKBACK == 90
\* set_pending_delete: expire(del_key, 300, None)
PENDING_TTL == 300
\* generate_chart: f64::NAN, the value of a point a run does not cover
\* (prices are positive here)
NAN == 0

Symbols == 1..MaxSymbols
StoreSymbols == 1..MaxWatch
Sites == {"trigger", "daily"}

\* cdc.rs Signal
Signal == {"Buy", "Sell", "BullishZone", "BearishZone", "None"}
\* What fetch_price gives a task: an error, no bars, or bars whose
\* calculate() signal is the given one.
FetchOutcome == {"FetchErr", "Empty"} \cup Signal
\* What spawn_blocking(generate_chart) gives a task.
RenderOutcome == {"Bytes", "ChartErr", "JoinErr"}
\* ScanResult of the specification: how a task ended.
ScanResult == {"Hit", "Skipped", "Failed"}

VARIABLES
  site,         \* which call site runs the scan
  watchlist,    \* the store's set of symbols (redis set <prefix>:watchlist)
  storeOps,     \* add/remove calls made so far
  pc,           \* where the scan function is suspended
  listCalls,    \* calls of SymbolStore::list made by the scan
  listResult,   \* "none" before the call, then "Ok" or "Err"
  symbols,      \* the Vec returned by list(), the stream's source
  next,         \* position of stream::iter(symbols)
  task,         \* futures held by buffer_unordered: symbol -> awaited call
  odd,          \* the irregular tasks of this scan
  fetchCalls,   \* fetch_price calls issued, per symbol
  evalCalls,    \* cdc::calculate calls made, per symbol
  renderCalls,  \* generate_chart calls issued, per symbol
  result,       \* how each finished task ended
  embeds,       \* Vec<CreateEmbed> accumulator
  attachments,  \* Vec<CreateAttachment> accumulator
  processed, hits, failures,
  outbox,       \* messages handed to the delivery surface, in order
  call,         \* the library call being made, with its arguments
  ret,          \* what that call returned ("none" while it has not)
  pending,      \* the pending-delete keys: session id -> members and expiry
  clock,        \* seconds since the epoch (SystemTime::now, redis time)
  ticks,        \* how often time has advanced
  reply,        \* the last response of handle_component
  accepted,     \* session ids a confirm has been accepted for
  setting       \* the set_pending_delete calls made: key, members, position

storeVars == <<watchlist, storeOps>>
scanVars == <<listCalls, listResult, symbols>>
taskVars == <<next, task, fetchCalls>>
sinkVars == <<embeds, attachments, outbox>>
countVars == <<processed, hits, failures>>
libVars == <<call, ret>>
sessionVars == <<pending, clock, ticks, reply, accepted, setting>>
\* Everything a scan reads or writes, the store apart.
engineVars == <<site, pc, scanVars, taskVars, odd, evalCalls, renderCalls, result,
                sinkVars, countVars>>
vars == <<site, watchlist, storeOps, pc, listCalls, listResult, symbols, next,
          task, odd, fetchCalls, evalCalls, renderCalls, result, embeds, attachments,
          processed, hits, failures, outbox, call, ret, pending, clock, ticks,
          reply, accepted, setting>>

\* ---------------------------------------------------------------- helpers
Min(a, b) == IF a < b THEN a ELSE b

NoTasks == [s \in {} |-> "fetch"]

\* No call under way, nothing returned.
NoCall == [fn |-> "none"]

\* No component interaction answered yet.
NoReply == [kind |-> "none", symbols |-> {}]

RECURSIVE SetToSeq(_)
\* smembers hands the set back as a Vec; the ascending order stands for the
\* order redis happens to use (symbols are interchangeable).
SetToSeq(S) ==
  IF S = {} THEN << >>
  ELSE LET m == CHOOSE x \in S : \A y \in S : x <= y
       IN <<m>> \o SetToSeq(S \ {m})

Range(q) == {q[i] : i \in 1..Len(q)}

\* ------------------------------------------------------------ symbol store
\* SymbolStore::list: the current members.
List == SetToSeq(watchlist)

\* SymbolStore::add (sadd).
Add(s) ==
  /\ storeOps < MaxStoreOps
  /\ watchlist' = watchlist \cup {s}
  /\ storeOps' = storeOps + 1
  /\ UNCHANGED <<site, pc, scanVars, next, task, odd, fetchCalls,
                 evalCalls, renderCalls, result, embeds, attachments, processed, hits,
                 failures, outbox>>

\* SymbolStore::remove (srem).
Remove(s) ==
  /\ storeOps < MaxStoreOps
  /\ watchlist' = watchlist \ {s}
  /\ storeOps' = storeOps + 1
  /\ UNCHANGED <<site, pc, scanVars, next, task, odd, fetchCalls,
                 evalCalls, renderCalls, result, embeds, attachments, processed, hits,
                 failures, outbox>>

\* ------------------------------------------------------------- scan engine
\* Capacity with the cap off by one.
CapacityOffByOne(tk) == CONCURRENCY + 1 - Cardinality(DOMAIN tk)

\* Free slots of buffer_unordered(CONCURRENCY).
Capacity(tk) == CONCURRENCY - Cardinality(DOMAIN tk)

\* Backlog read from the store again at every poll.
BacklogLive == SetToSeq(watchlist)

\* The source the stream draws symbols from: the Vec captured at scan start.
Backlog == symbols

\* Admit in fixed groups (chunks(CONCURRENCY) with join_all): symbols are
\* pulled only once every task of the previous group has finished.
AdmitWhenDrained(syms, nx, tk) ==
  LET free == IF DOMAIN tk = {} THEN CONCURRENCY ELSE 0
      k == Min(free, Len(syms) + 1 - nx)
      new == {syms[i] : i \in nx..(nx + k - 1)}
  IN [next |-> nx + k,
      task |-> [s \in new |-> "fetch"] @@ tk,
      new |-> new]

\* buffer_unordered's poll: pull symbols from the stream while there is a free
\* slot; a pulled future is polled at once and issues its fetch_price call.
Admit(syms, nx, tk) ==
  LET free == IF Capacity(tk) > 0 THEN Capacity(tk) ELSE 0
      k == Min(free, Len(syms) + 1 - nx)
      new == {syms[i] : i \in nx..(nx + k - 1)}
  IN [next |-> nx + k,
      task |-> [s \in new |-> "fetch"] @@ tk,
      new |-> new]

\* BatchFull with `>` for `==`.
BatchFullLate(emb) == Len(emb) > BATCH_SIZE

\* `if embeds.len() == BATCH_SIZE`
BatchFull(emb) == Len(emb) = BATCH_SIZE

\* Batch with the artifacts put back into submission order.
BatchInSubmissionOrder(emb, att) ==
  [kind |-> "batch", embeds |-> SetToSeq(Range(emb)),
   attachments |-> SetToSeq(Range(att)), status |-> "pending"]

\* The message built from the accumulators (take(&mut embeds), ...).
Batch(emb, att) ==
  [kind |-> "batch", embeds |-> emb, attachments |-> att, status |-> "pending"]

\* The "No Buy/Sell signals found." reply.
NoSignals ==
  [kind |-> "text", embeds |-> << >>, attachments |-> << >>, status |-> "pending"]

\* trigger sends the reply in its else branch; run_daily has it commented out.
NotifiesNoSignals(st) == st = "trigger"

\* FlushErrorAborts with `?` on the in-loop send at both call sites.
FlushErrorAbortsEverywhere(st) == st \in Sites

\* trigger awaits the in-loop send with `?`; run_daily logs the error.
FlushErrorAborts(st) == st = "trigger"

\* AfterLoop without the final batch: what is left in the accumulators is
\* never sent.
AfterLoopDropsRest(emb, att, ob) ==
  /\ embeds' = emb
  /\ attachments' = att
  /\ IF NotifiesNoSignals(site)
       THEN outbox' = Append(ob, NoSignals) /\ pc' = "final"
       ELSE outbox' = ob /\ pc' = "done"

\* After `while let` ends: the final batch, the notification, or nothing.
AfterLoop(emb, att, ob) ==
  IF emb # << >>
    THEN /\ outbox' = Append(ob, Batch(emb, att))
         /\ embeds' = << >>
         /\ attachments' = << >>
         /\ pc' = "final"
    ELSE /\ embeds' = emb
         /\ attachments' = att
         /\ IF NotifiesNoSignals(site)
              THEN outbox' = Append(ob, NoSignals) /\ pc' = "final"
              ELSE outbox' = ob /\ pc' = "done"

\* The loop reaches `tasks.next().await`: the stream is polled, which admits
\* new tasks; with nothing in flight and nothing left the stream has ended.
Resume(syms, nx, tk, emb, att, ob) ==
  LET a == Admit(syms, nx, tk)
  IN /\ next' = a.next
     /\ task' = a.task
     /\ fetchCalls' = [s \in a.new |-> fetchCalls[s] + 1] @@ fetchCalls
     /\ IF DOMAIN a.task = {}
          THEN AfterLoop(emb, att, ob)
          ELSE /\ pc' = "loop"
               /\ embeds' = emb
               /\ attachments' = att
               /\ outbox' = ob

\* Drop that tears down every future of the buffer with the finished one.
DropAll(tk, s) == [t \in {} |-> "fetch"]

\* Drop that puts the finished task back at its fetch, to be run again.
DropRetries(tk, s) == [t \in DOMAIN tk |-> IF t = s THEN "fetch" ELSE tk[t]]

\* FuturesUnordered drops the future that has finished.
Drop(tk, s) == [t \in DOMAIN tk \ {s} |-> tk[t]]

\* Consume with the full accumulators cloned into the message instead of
\* taken: they keep their contents after the flush.
ConsumeClones(s, res, how) ==
  LET tk == Drop(task, s)
  IN /\ processed' = processed + 1
     /\ result' = (s :> how) @@ result
     /\ CASE res = "Hit" ->
               LET emb == Append(embeds, s)
                   att == Append(attachments, s)
               IN /\ hits' = hits + 1
                  /\ failures' = failures
                  /\ IF BatchFull(emb)
                       THEN /\ outbox' = Append(outbox, Batch(emb, att))
                            /\ embeds' = emb
                            /\ attachments' = att
                            /\ pc' = "flush"
                            /\ task' = tk
                            /\ UNCHANGED <<next, fetchCalls>>
                       ELSE Resume(Backlog, next, tk, emb, att, outbox)
          [] res = "None" ->
               /\ UNCHANGED <<hits, failures>>
               /\ Resume(Backlog, next, tk, embeds, attachments, outbox)
          [] res = "Err" ->
               /\ hits' = hits
               /\ failures' = failures + 1
               /\ Resume(Backlog, next, tk, embeds, attachments, outbox)

\* One iteration of the consuming loop for the result `res` of task s.
Consume(s, res, how) ==
  LET tk == Drop(task, s)
  IN /\ processed' = processed + 1
     /\ result' = (s :> how) @@ result
     /\ CASE res = "Hit" ->
               LET emb == Append(embeds, s)
                   att == Append(attachments, s)
               IN /\ hits' = hits + 1
                  /\ failures' = failures
                  /\ IF BatchFull(emb)
                       THEN /\ outbox' = Append(outbox, Batch(emb, att))
                            /\ embeds' = << >>
                            /\ attachments' = << >>
                            /\ pc' = "flush"
                            /\ task' = tk
                            /\ UNCHANGED <<next, fetchCalls>>
                       ELSE Resume(Backlog, next, tk, emb, att, outbox)
          [] res = "None" ->
               /\ UNCHANGED <<hits, failures>>
               /\ Resume(Backlog, next, tk, embeds, attachments, outbox)
          [] res = "Err" ->
               /\ hits' = hits
               /\ failures' = failures + 1
               /\ Resume(Backlog, next, tk, embeds, attachments, outbox)

\* The oldest task still in flight.
Oldest == CHOOSE s \in DOMAIN task : \A t \in DOMAIN task : s <= t

\* The awaited call of task s may return now.
MayStep(s) ==
  /\ pc = "loop"
  /\ s \in DOMAIN task
  /\ \/ s = Oldest
     \/ s \in odd
     \/ Cardinality(odd) < MaxOdd

\* Task s may end without a hit.
MayMiss(s) == s \in odd \/ Cardinality(odd) < MaxOdd

\* The irregular tasks after a step of s (miss: the step ends s without a hit).
OddAfter(s, miss) == IF s = Oldest /\ ~miss THEN odd ELSE odd \cup {s}

\* The scan function starts and list() succeeds.
Start ==
  /\ pc = "idle"
  /\ listCalls' = listCalls + 1
  /\ listResult' = "Ok"
  /\ symbols' = List
  /\ Resume(List, 1, NoTasks, << >>, << >>, << >>)
  /\ UNCHANGED <<site, storeVars, odd, evalCalls, renderCalls, result, countVars>>

\* ListFailed with the error swallowed (unwrap_or_default): the scan goes on
\* over an empty Vec.
ListFailedAsEmpty ==
  /\ pc = "idle"
  /\ listCalls' = listCalls + 1
  /\ listResult' = "Err"
  /\ symbols' = << >>
  /\ Resume(<< >>, 1, NoTasks, << >>, << >>, << >>)
  /\ UNCHANGED <<site, storeVars, odd, evalCalls, renderCalls, result, countVars>>

\* list() fails: `symbol_store.list().await?`
ListFailed ==
  /\ pc = "idle"
  /\ listCalls' = listCalls + 1
  /\ listResult' = "Err"
  /\ pc' = "err"
  /\ UNCHANGED <<site, storeVars, symbols, taskVars, odd, evalCalls, renderCalls, result,
                 sinkVars, countVars>>

\* trigger only: `ctx.defer().await?` fails before anything else.
DeferFailed ==
  /\ pc = "idle"
  /\ site = "trigger"
  /\ pc' = "err"
  /\ UNCHANGED <<site, storeVars, scanVars, taskVars, odd,
                 evalCalls, renderCalls, result, sinkVars, countVars>>

\* Whether the task goes on to cdc::calculate after its fetch returned r: not
\* after a fetch error, not over an empty series (the early returns).
Evaluated(r) == r \notin {"FetchErr", "Empty"}

\* AfterFetch that does not wait for the chart: the hit is returned as soon
\* as the signal is known.
AfterFetchNoAwait(r) ==
  CASE r = "FetchErr" -> "Failed"
    [] r = "Empty" -> "Skipped"
    [] r \in {"Buy", "Sell"} -> "Hit"
    [] OTHER -> "Skipped"

\* AfterFetch with a chart rendered for the zone signals as well.
AfterFetchRendersZones(r) ==
  CASE r = "FetchErr" -> "Failed"
    [] r = "Empty" -> "Skipped"
    [] r \in {"Buy", "Sell", "BullishZone", "BearishZone"} -> "render"
    [] OTHER -> "Skipped"

\* What a task returns right after its fetch, or "render" when it goes on.
AfterFetch(r) ==
  CASE r = "FetchErr" -> "Failed"
    [] r = "Empty" -> "Skipped"
    [] r \in {"Buy", "Sell"} -> "render"
    [] OTHER -> "Skipped"

\* FetchReturns whose task counts itself as processed when it goes on to its
\* render (a counter shared with the tasks).
FetchReturnsCounts(s, r) ==
  /\ MayStep(s)
  /\ task[s] = "fetch"
  /\ odd' = OddAfter(s, AfterFetch(r) # "render")
  /\ evalCalls' = IF Evaluated(r) THEN [evalCalls EXCEPT ![s] = @ + 1]
                                  ELSE evalCalls
  /\ IF AfterFetch(r) = "render"
       THEN /\ task' = [task EXCEPT ![s] = "render"]
            /\ renderCalls' = [renderCalls EXCEPT ![s] = @ + 1]
            /\ processed' = processed + 1
            /\ UNCHANGED <<pc, next, fetchCalls, result, sinkVars, hits, failures>>
       ELSE /\ MayMiss(s)
            /\ Consume(s, "None", AfterFetch(r))
            /\ UNCHANGED renderCalls
  /\ UNCHANGED <<site, storeVars, scanVars>>

\* fetch_price of task s returns r; the task runs up to its next await.
FetchReturns(s, r) ==
  /\ MayStep(s)
  /\ task[s] = "fetch"
  /\ odd' = OddAfter(s, AfterFetch(r) # "render")
  /\ evalCalls' = IF Evaluated(r) THEN [evalCalls EXCEPT ![s] = @ + 1]
                                  ELSE evalCalls
  /\ IF AfterFetch(r) = "render"
       THEN /\ task' = [task EXCEPT ![s] = "render"]
            /\ renderCalls' = [renderCalls EXCEPT ![s] = @ + 1]
            /\ UNCHANGED <<pc, next, fetchCalls, result, sinkVars, countVars>>
       ELSE /\ MayMiss(s)
            /\ Consume(s, "None", AfterFetch(r))
            /\ UNCHANGED renderCalls
  /\ UNCHANGED <<site, storeVars, scanVars>>

\* AfterRender made to depend on the shared accumulator: the chart that
\* would fill the batch is given up.
AfterRenderUnlessFull(r) ==
  CASE r = "Bytes" /\ Len(embeds) < BATCH_SIZE - 1 -> "Hit"
    [] OTHER -> "Failed"

\* What a task returns after its render.
AfterRender(r) ==
  CASE r = "Bytes" -> "Hit"
    [] r = "ChartErr" -> "Failed"
    [] OTHER -> "Failed"

\* spawn_blocking(generate_chart) of task s returns r.
RenderReturns(s, r) ==
  /\ MayStep(s)
  /\ task[s] = "render"
  /\ odd' = OddAfter(s, AfterRender(r) # "Hit")
  /\ IF AfterRender(r) = "Hit"
       THEN Consume(s, "Hit", "Hit")
       ELSE MayMiss(s) /\ Consume(s, "None", AfterRender(r))
  /\ UNCHANGED <<site, storeVars, scanVars, evalCalls, renderCalls>>

SetLast(ob, st) == [ob EXCEPT ![Len(ob)].status = st]

\* The send of a full batch inside the loop returns.
FlushReturns(ok) ==
  /\ pc = "flush"
  /\ IF ok \/ ~FlushErrorAborts(site)
       THEN Resume(Backlog, next, task, embeds, attachments,
                   SetLast(outbox, IF ok THEN "ok" ELSE "failed"))
       ELSE /\ outbox' = SetLast(outbox, "failed")
            /\ pc' = "err"
            /\ task' = NoTasks
            /\ UNCHANGED <<next, fetchCalls, embeds, attachments>>
  /\ UNCHANGED <<site, storeVars, scanVars, odd, evalCalls, renderCalls, result,
                 countVars>>

\* The send after the loop (final batch or notification) returns: `.await?`
FinalReturns(ok) ==
  /\ pc = "final"
  /\ outbox' = SetLast(outbox, IF ok THEN "ok" ELSE "failed")
  /\ pc' = IF ok THEN "done" ELSE "err"
  /\ UNCHANGED <<site, storeVars, scanVars, taskVars, odd,
                 evalCalls, renderCalls, result, embeds, attachments, countVars>>

\* Everything but the watchlist the store holds when the bot starts.
InitScan ==
  /\ site \in Sites
  /\ storeOps = 0
  /\ pc = "idle"
  /\ listCalls = 0
  /\ listResult = "none"
  /\ symbols = << >>
  /\ next = 1
  /\ task = NoTasks
  /\ odd = {}
  /\ fetchCalls = [s \in Symbols |-> 0]
  /\ evalCalls = [s \in Symbols |-> 0]
  /\ renderCalls = [s \in Symbols |-> 0]
  /\ result = NoTasks
  /\ embeds = << >>
  /\ attachments = << >>
  /\ processed = 0
  /\ hits = 0
  /\ failures = 0
  /\ outbox = << >>

\* No library call under way.
InitLib ==
  /\ call = NoCall
  /\ ret = NoCall

\* No pending-delete session, no component interaction handled yet.
InitSessions ==
  /\ pending = [id \in {} |-> 0]
  /\ clock = 0
  /\ ticks = 0
  /\ reply = NoReply
  /\ accepted = {}
  /\ setting = << >>

Init ==
  /\ InitScan
  /\ InitLib
  /\ InitSessions
  /\ \E n \in 0..MaxSymbols : watchlist = 1..n

InitStore ==
  /\ InitScan
  /\ InitLib
  /\ InitSessions
  /\ watchlist \in SUBSET StoreSymbols

Next ==
  \/ Start /\ UNCHANGED <<libVars, sessionVars>>
  \/ ListFailed /\ UNCHANGED <<libVars, sessionVars>>
  \/ DeferFailed /\ UNCHANGED <<libVars, sessionVars>>
  \/ \E s \in DOMAIN task : \E r \in FetchOutcome :
       FetchReturns(s, r) /\ UNCHANGED <<libVars, sessionVars>>
  \/ \E s \in DOMAIN task : \E r \in RenderOutcome :
       RenderReturns(s, r) /\ UNCHANGED <<libVars, sessionVars>>
  \/ \E ok \in BOOLEAN : FlushReturns(ok) /\ UNCHANGED <<libVars, sessionVars>>
  \/ \E ok \in BOOLEAN : FinalReturns(ok) /\ UNCHANGED <<libVars, sessionVars>>

\* A scan beside watch and delete commands.  A watchlist of at most
\* MaxWatch + MaxStoreOps symbols never fills a batch, so the send inside the
\* loop (FlushReturns) has no step here.
NextStore ==
  \/ Start /\ UNCHANGED <<libVars, sessionVars>>
  \/ ListFailed /\ UNCHANGED <<libVars, sessionVars>>
  \/ DeferFailed /\ UNCHANGED <<libVars, sessionVars>>
  \/ \E s \in DOMAIN task : \E r \in FetchOutcome :
       FetchReturns(s, r) /\ UNCHANGED <<libVars, sessionVars>>
  \/ \E s \in DOMAIN task : \E r \in RenderOutcome :
       RenderReturns(s, r) /\ UNCHANGED <<libVars, sessionVars>>
  \/ \E ok \in BOOLEAN : FinalReturns(ok) /\ UNCHANGED <<libVars, sessionVars>>
  \/ \E s \in StoreSymbols : Add(s) /\ UNCHANGED <<libVars, sessionVars>>
  \/ \E s \in StoreSymbols : Remove(s) /\ UNCHANGED <<libVars, sessionVars>>

Spec == Init /\ [][Next]_vars

SpecStore == InitStore /\ [][NextStore]_vars

\* The messages run_daily submits for the hits h, taken in the order its loop
\* consumed them: a message each time the accumulator holds BATCH_SIZE
\* embeds, then what is left over, and nothing at all for no hits.
RECURSIVE DailyMessages(_)
DailyMessages(h) ==
  IF Len(h) >= BATCH_SIZE
    THEN <<[kind |-> "batch", embeds |-> SubSeq(h, 1, BATCH_SIZE)]>>
           \o DailyMessages(SubSeq(h, BATCH_SIZE + 1, Len(h)))
    ELSE IF h # << >> THEN <<[kind |-> "batch", embeds |-> h]>> ELSE << >>

\* run_daily returns Err after its list() only when the send of what was
\* left over after the loop fails (`channel.send_message(..).await?`).
DailyFails(ob) ==
  /\ ob # << >>
  /\ Len(ob[Len(ob)].embeds) < BATCH_SIZE
  /\ ob[Len(ob)].status = "failed"

\* Every awaited fetch, render and send of a scan eventually returns.
Fairness ==
  /\ WF_vars(\E s \in DOMAIN task : \E r \in FetchOutcome :
               FetchReturns(s, r) /\ UNCHANGED <<libVars, sessionVars>>)
  /\ WF_vars(\E s \in DOMAIN task : \E r \in RenderOutcome :
               RenderReturns(s, r) /\ UNCHANGED <<libVars, sessionVars>>)
  /\ WF_vars(\E ok \in BOOLEAN :
               FlushReturns(ok) /\ UNCHANGED <<libVars, sessionVars>>)
  /\ WF_vars(\E ok \in BOOLEAN :
               FinalReturns(ok) /\ UNCHANGED <<libVars, sessionVars>>)

FairSpec == Init /\ [][Next]_vars /\ Fairness

TypeOK ==
  /\ site \in Sites
  /\ pc \in {"idle", "loop", "flush", "final", "done", "err"}
  /\ listResult \in {"none", "Ok", "Err"}
  /\ \A s \in DOMAIN result : result[s] \in ScanResult
  /\ \A s \in DOMAIN task : task[s] \in {"fetch", "render"}

\* ------------------------------------------------------- indicators (cdc)
\* Values of the series are exact fractions n/d with d > 0, so that the
\* comparisons below are those of the averaged prices.
Rat(v) == [n |-> v, d |-> 1]
Lt(a, b) == a.n * b.d < b.n * a.d
Le(a, b) == a.n * b.d <= b.n * a.d
Gt(a, b) == Lt(b, a)
Ge(a, b) == Le(b, a)

\* ta's ExponentialMovingAverage::next after the first value:
\* k * x + (1 - k) * current with k = 2 / (period + 1).
EmaNext(period, cur, x) ==
  [n |-> 2 * x * cur.d + (period - 1) * cur.n, d |-> (period + 1) * cur.d]

\* The values pushed by `for &x in closes`: the first is the input itself.
RECURSIVE Ema(_, _)
Ema(period, closes) ==
  IF closes = << >> THEN << >>
  ELSE IF Len(closes) = 1 THEN <<Rat(closes[1])>>
  ELSE LET e == Ema(period, SubSeq(closes, 1, Len(closes) - 1))
       IN Append(e, EmaNext(period, e[Len(e)], closes[Len(closes)]))

\* Crossover with a strict comparison of the previous points.
CrossoverStrict(prev_fast, prev_slow, cur_fast, cur_slow) ==
  IF Lt(prev_fast, prev_slow) /\ Gt(cur_fast, cur_slow) THEN "Buy"
  ELSE IF Gt(prev_fast, prev_slow) /\ Lt(cur_fast, cur_slow) THEN "Sell"
  ELSE IF Gt(cur_fast, cur_slow) THEN "BullishZone"
  ELSE "BearishZone"

\* The if / else-if chain of calculate.
Crossover(prev_fast, prev_slow, cur_fast, cur_slow) ==
  IF Le(prev_fast, prev_slow) /\ Gt(cur_fast, cur_slow) THEN "Buy"
  ELSE IF Ge(prev_fast, prev_slow) /\ Lt(cur_fast, cur_slow) THEN "Sell"
  ELSE IF Gt(cur_fast, cur_slow) THEN "BullishZone"
  ELSE "BearishZone"

\* SignalOf that also gives up on a series of two points.
SignalOfLongOnly(fast, slow) ==
  IF Len(fast) <= 2 THEN "None"
  ELSE Crossover(fast[Len(fast) - 1], slow[Len(fast) - 1],
                 fast[Len(fast)], slow[Len(fast)])

\* calculate after the averaging loop: `if closes.len() < 2`, then the last
\* two points (p = len - 2, c = len - 1, counted from 0) of both series.
SignalOf(fast, slow) ==
  IF Len(fast) < 2 THEN "None"
  ELSE Crossover(fast[Len(fast) - 1], slow[Len(fast) - 1],
                 fast[Len(fast)], slow[Len(fast)])

\* calculate(closes) -> (Signal, ema12_vals, ema26_vals)
Calculate(closes) ==
  LET fast == Ema(FAST_PERIOD, closes)
      slow == Ema(SLOW_PERIOD, closes)
  IN [fn |-> "calculate", signal |-> SignalOf(fast, slow),
      ema12 |-> fast, ema26 |-> slow]

\* The second ensure! of generate_chart without the dates.
LengthsAgreeButDates(prices, ema12, ema26, dates) ==
  /\ Len(prices) = Len(ema12)
  /\ Len(prices) = Len(ema26)

\* The condition of the second ensure! of generate_chart.
LengthsAgree(prices, ema12, ema26, dates) ==
  /\ Len(prices) = Len(ema12)
  /\ Len(prices) = Len(ema26)
  /\ Len(prices) = Len(dates)

\* The slice generate_chart draws: the last LOOKBACK.min(len) points.
Display(series) ==
  LET lookback == Min(LOOKBACK, Len(series))
      start_idx == IF Len(series) > lookback THEN Len(series) - lookback ELSE 0
  IN SubSeq(series, start_idx + 1, Len(series))

\* StartIdx one too far: the window loses its oldest point.
StartIdxOffByOne(prices) ==
  LET lookback == Min(LOOKBACK, Len(prices))
  IN IF Len(prices) > lookback THEN Len(prices) - lookback + 1 ELSE 0

\* let lookback = LOOKBACK.min(prices.len());
\* let start_idx = prices.len().saturating_sub(lookback);
StartIdx(prices) ==
  LET lookback == Min(LOOKBACK, Len(prices))
  IN IF Len(prices) > lookback THEN Len(prices) - lookback ELSE 0

\* &series[start_idx..]
From(series, start_idx) == SubSeq(series, start_idx + 1, Len(series))

\* The loop body without the two `if bull != prev_bull` assignments: the runs
\* are not joined at a flip.
LoopBodyUnjoined(st, i, p, f, s) ==
  IF f[i] > s[i]
    THEN [price_green |-> [st.price_green EXCEPT ![i] = p[i]],
          price_red |-> st.price_red,
          prev_bull |-> TRUE]
    ELSE [price_green |-> st.price_green,
          price_red |-> [st.price_red EXCEPT ![i] = p[i]],
          prev_bull |-> FALSE]

\* The body of `for i in 1..n` for the point i (counted from 1 here): the
\* point goes to the green or the red series and, at a flip, so does the
\* point before it; then prev_bull = bull.
LoopBody(st, i, p, f, s) ==
  IF f[i] > s[i]
    THEN [price_green |->
            IF ~st.prev_bull
              THEN [st.price_green EXCEPT ![i] = p[i], ![i - 1] = p[i - 1]]
              ELSE [st.price_green EXCEPT ![i] = p[i]],
          price_red |-> st.price_red,
          prev_bull |-> TRUE]
    ELSE [price_green |-> st.price_green,
          price_red |->
            IF st.prev_bull
              THEN [st.price_red EXCEPT ![i] = p[i], ![i - 1] = p[i - 1]]
              ELSE [st.price_red EXCEPT ![i] = p[i]],
          prev_bull |-> FALSE]

\* The iterations lo..hi of the loop, in their order, from the state st (the
\* first half is run to its end before the second, which keeps the
\* evaluation shallow).
RECURSIVE Loop(_, _, _, _, _, _)
Loop(lo, hi, st, p, f, s) ==
  IF lo > hi THEN st
  ELSE IF lo = hi THEN LoopBody(st, lo, p, f, s)
  ELSE LET mid == (lo + hi) \div 2
           half == Loop(lo, mid, st, p, f, s)
       IN IF half.prev_bull \in BOOLEAN
            THEN Loop(mid + 1, hi, half, p, f, s)
            ELSE half

\* price_green and price_red: vec![f64::NAN; n], the first point by
\* display_ema12[0] > display_ema26[0], then the loop.
Segments(p, f, s) ==
  LET nan == [i \in 1..Len(p) |-> NAN]
      prev_bull == f[1] > s[1]
  IN Loop(2, Len(p),
          [price_green |-> IF prev_bull THEN [nan EXCEPT ![1] = p[1]] ELSE nan,
           price_red |-> IF prev_bull THEN nan ELSE [nan EXCEPT ![1] = p[1]],
           prev_bull |-> prev_bull],
          p, f, s)

\* The chart handed to the renderer: the category axis and the four series.
Chart(prices, ema12, ema26, dates) ==
  LET start_idx == StartIdx(prices)
      display_prices == From(prices, start_idx)
      display_ema12 == From(ema12, start_idx)
      display_ema26 == From(ema26, start_idx)
      display_dates == From(dates, start_idx)
      seg == Segments(display_prices, display_ema12, display_ema26)
  IN [x_axis |-> display_dates,
      price_green |-> seg.price_green,
      price_red |-> seg.price_red,
      ema12 |-> display_ema12,
      ema26 |-> display_ema26]

\* generate_chart: the two ensure! checks in their order, the slice, then the
\* renderer, which gives the image or fails (rendered).
GenerateChart(prices, ema12, ema26, dates, rendered) ==
  IF prices = << >>
    THEN [fn |-> "generate_chart", ok |-> FALSE, error |-> "prices is empty"]
  ELSE IF ~LengthsAgree(prices, ema12, ema26, dates)
    THEN [fn |-> "generate_chart", ok |-> FALSE, error |-> "length mismatch"]
  ELSE IF Len(From(prices, StartIdx(prices))) = 0
    THEN [fn |-> "generate_chart", ok |-> FALSE, error |-> "no data to display"]
  ELSE IF ~rendered
    THEN [fn |-> "generate_chart", ok |-> FALSE, error |-> "render"]
  ELSE [fn |-> "generate_chart", ok |-> TRUE, bytes |-> Display(prices),
        chart |-> Chart(prices, ema12, ema26, dates)]

\* The calls a run of the library makes.
Series == UNION {[1..n -> 1..MaxPrice] : n \in 0..MaxLen}
Fill(n) == [i \in 1..n |-> 1]
Exact(series) == [i \in 1..Len(series) |-> Rat(series[i])]
CalculateCall(closes) == [fn |-> "calculate", closes |-> closes]
CrossoverCall(fast, slow) ==
  [fn |-> "crossover", fast |-> Exact(fast), slow |-> Exact(slow)]
ChartCall(np, n12, n26, nd) ==
  [fn |-> "generate_chart", prices |-> Fill(np), ema12 |-> Fill(n12),
   ema26 |-> Fill(n26), dates |-> Fill(nd)]

\* calculate returns.
CalculateReturns ==
  /\ call.fn = "calculate"
  /\ ret.fn = "none"
  /\ ret' = Calculate(call.closes)
  /\ UNCHANGED <<call, storeVars, engineVars, sessionVars>>

\* The signal part of calculate returns for the two given series.
CrossoverReturns ==
  /\ call.fn = "crossover"
  /\ ret.fn = "none"
  /\ ret' = [fn |-> "crossover", signal |-> SignalOf(call.fast, call.slow)]
  /\ UNCHANGED <<call, storeVars, engineVars, sessionVars>>

\* generate_chart returns.
GenerateChartReturns(rendered) ==
  /\ call.fn = "generate_chart"
  /\ ret.fn = "none"
  /\ ret' = GenerateChart(call.prices, call.ema12, call.ema26, call.dates,
                          rendered)
  /\ UNCHANGED <<call, storeVars, engineVars, sessionVars>>

InitCdc ==
  /\ InitScan
  /\ site = "trigger"
  /\ watchlist = {}
  /\ InitSessions
  /\ ret = NoCall
  /\ \/ \E closes \in Series : call = CalculateCall(closes)
     \/ \E n \in 0..MaxLen :
          \E fast \in [1..n -> 1..MaxPrice], slow \in [1..n -> 1..MaxPrice] :
            call = CrossoverCall(fast, slow)
     \/ \E np \in 0..MaxLen, n12 \in 0..MaxLen, n26 \in 0..MaxLen,
            nd \in 0..MaxLen : call = ChartCall(np, n12, n26, nd)

NextCdc ==
  \/ CalculateReturns
  \/ CrossoverReturns
  \/ \E rendered \in BOOLEAN : GenerateChartReturns(rendered)

SpecCdc == InitCdc /\ [][NextCdc]_vars

\* Valid calls of generate_chart whose points carry their position: the price
\* and the date of point i are i, ema26 is 3 * i and ema12 lies d[i] above it
\* (1: above, 0: equal, -1: below).
TrendCall(n, d) ==
  [fn |-> "generate_chart",
   prices |-> [i \in 1..n |-> i],
   ema12 |-> [i \in 1..n |-> 3 * i + d[i]],
   ema26 |-> [i \in 1..n |-> 3 * i],
   dates |-> [i \in 1..n |-> i]]

\* A trend with one run of len points from point a on: the run is above
\* ema26 and the rest at `low`, or (up = FALSE) the other way round.
Run(n, a, len, up, low) ==
  [i \in 1..n |-> IF (a <= i /\ i < a + len) = up THEN 1 ELSE low]

\* Series about as long as the window and longer.
LongLengths == (LOOKBACK - 1)..(LOOKBACK + MaxOver)

InitChart ==
  /\ InitScan
  /\ site = "trigger"
  /\ watchlist = {}
  /\ InitSessions
  /\ ret = NoCall
  /\ \/ \E n \in 1..MaxShort : \E d \in [1..n -> {-1, 0, 1}] :
          call = TrendCall(n, d)
     \/ \E n \in LongLengths, a \in 1..(LOOKBACK + MaxOver), len \in 0..MaxRun,
            up \in BOOLEAN, low \in {-1, 0} :
          a <= n /\ call = TrendCall(n, Run(n, a, len, up, low))

NextChart == \E rendered \in BOOLEAN : GenerateChartReturns(rendered)

SpecChart == InitChart /\ [][NextChart]_vars

\* ------------------------------------------------- delete confirmation
Users == 1..MaxUsers

\* u64 / i64 Display: the decimal digits of n.
RECURSIVE Decimal(_)
Decimal(n) ==
  LET digit == <<"0", "1", "2", "3", "4", "5", "6", "7", "8", "9">>[(n % 10) + 1]
  IN IF n < 10 THEN <<digit>> ELSE Append(Decimal(n \div 10), digit)

\* format!("{user_id}-{ts}")
ReqId(user_id, ts) == Decimal(user_id) \o <<"-">> \o Decimal(ts)

\* req_id.split('-').next().unwrap_or_default()
Owner(req_id) ==
  LET dashes == {i \in 1..Len(req_id) : req_id[i] = "-"}
      stop == IF dashes = {} THEN Len(req_id) + 1
              ELSE CHOOSE i \in dashes : \A j \in dashes : i <= j
  IN SubSeq(req_id, 1, stop - 1)

\* Owns for whoever presses the button.
OwnsAny(user_id, req_id) == TRUE

\* The negation of `if owner != user_id.to_string()`.
Owns(user_id, req_id) == Owner(req_id) = Decimal(user_id)

\* Expiry one second late.
ExpiryLate(t) == t + PENDING_TTL + 1

\* When a key given its time to live at second t is gone.
Expiry(t) == t + PENDING_TTL

\* Whether redis holds key k: a key with an expiry is gone once the expiry
\* is reached, a key without one stays.
Exists(p, k) ==
  k \in DOMAIN p /\ ("expires" \in DOMAIN p[k] => clock < p[k].expires)

\* redis DEL key
Del(p, k) == [j \in DOMAIN p \ {k} |-> p[j]]

\* redis SADD key members: the members join the set under the key; a key
\* that was absent is created, with no expiry.
SAddAll(p, k, members) ==
  IF Exists(p, k)
    THEN [p EXCEPT ![k].symbols = @ \cup members]
    ELSE (k :> [symbols |-> members, setAt |-> clock]) @@ Del(p, k)

\* redis EXPIRE key 300: the key, if there is one, gets a new time to live.
Expire(p, k) ==
  IF Exists(p, k)
    THEN (k :> [symbols |-> p[k].symbols, setAt |-> p[k].setAt,
                expires |-> Expiry(clock)]) @@ p
    ELSE p

\* SymbolStore::set_pending_delete when nothing else touches the key between
\* its commands: del, sadd of the symbols (skipped for an empty Vec), expire.
SetPendingDelete(id, syms) ==
  LET deleted == Del(pending, id)
      added == IF syms = {} THEN deleted ELSE SAddAll(deleted, id, syms)
  IN Expire(added, id)

\* SymbolStore::get_pending_delete: the members of the key, None when redis
\* holds no such key (never set, or expired).
GetPendingDelete(id) ==
  IF Exists(pending, id) /\ pending[id].symbols # {}
    THEN [some |-> TRUE, symbols |-> pending[id].symbols]
    ELSE [some |-> FALSE, symbols |-> {}]

\* handle_component, select menu: a session id from the user and the second,
\* the selection stored under it, the confirm prompt shown.  (An empty
\* selection returns at once and changes nothing.)  A run follows one
\* session id: a later selection is one that gets the same id again.
SelectDelete(user_id, values) ==
  LET req_id == ReqId(user_id, clock)
  IN /\ values # {}
     /\ DOMAIN pending \subseteq {req_id}
     /\ pending' = SetPendingDelete(req_id, values)
     /\ accepted' = accepted \ {req_id}
     /\ reply' = [kind |-> "prompt", symbols |-> values]
     /\ UNCHANGED <<clock, ticks, setting, storeVars, engineVars, libVars>>

\* handle_component, cancel button.
CancelDelete(user_id) ==
  /\ DOMAIN pending # {}
  /\ reply' = [kind |-> "cancelled", symbols |-> {}]
  /\ UNCHANGED <<pending, accepted, clock, ticks, setting, storeVars, engineVars,
                 libVars>>

\* format!("{} was deleted.", symbols.join(", ")): the answer names every
\* symbol of the session.
DeletedAnswer(syms, failed) == [kind |-> "deleted", symbols |-> syms]

\* `for sym in &symbols { match remove(sym).await .. }`: the watchlist after
\* the loop, the removes of `failed` having returned Err.
RemoveEach(wl, syms, failed) == wl \ (syms \ failed)

\* handle_component, confirm button of the prompt for req_id.
ConfirmDelete(user_id, req_id) ==
  /\ req_id \in DOMAIN pending
  /\ IF ~Owns(user_id, req_id)
       THEN /\ reply' = [kind |-> "denied", symbols |-> {}]
            /\ UNCHANGED <<watchlist, accepted>>
       ELSE IF ~GetPendingDelete(req_id).some
         THEN /\ reply' = [kind |-> "expired", symbols |-> {}]
              /\ UNCHANGED <<watchlist, accepted>>
         ELSE \E failed \in SUBSET GetPendingDelete(req_id).symbols :
                /\ watchlist' = RemoveEach(watchlist,
                                           GetPendingDelete(req_id).symbols, failed)
                /\ accepted' = accepted \cup {req_id}
                /\ reply' = DeletedAnswer(GetPendingDelete(req_id).symbols, failed)
  /\ UNCHANGED <<pending, clock, ticks, setting, storeOps, engineVars, libVars>>

\* d seconds pass.
Elapse(d) ==
  /\ ticks < MaxTicks
  /\ ticks' = ticks + 1
  /\ clock' = clock + d
  /\ UNCHANGED <<pending, reply, accepted, setting, storeVars, engineVars, libVars>>

InitDelete ==
  /\ InitScan
  /\ site = "trigger"
  /\ InitLib
  /\ InitSessions
  /\ watchlist = StoreSymbols

NextDelete ==
  \/ \E u \in Users : \E values \in SUBSET StoreSymbols : SelectDelete(u, values)
  \/ \E u \in Users : CancelDelete(u)
  \/ \E u \in Users : \E id \in DOMAIN pending : ConfirmDelete(u, id)
  \/ \E d \in {1, PENDING_TTL - 1} : Elapse(d)

\* The delete components beside /watch, which puts symbols back.
NextDeleteWatch ==
  \/ \E u \in Users : \E values \in SUBSET StoreSymbols : SelectDelete(u, values)
  \/ \E u \in Users : CancelDelete(u)
  \/ \E u \in Users : \E id \in DOMAIN pending : ConfirmDelete(u, id)
  \/ \E d \in {1, PENDING_TTL - 1} : Elapse(d)
  \/ \E s \in StoreSymbols : Add(s) /\ UNCHANGED <<libVars, sessionVars>>

SpecDelete == InitDelete /\ [][NextDelete]_vars

SpecDeleteWatch == InitDelete /\ [][NextDeleteWatch]_vars

\* ---------------------------------------------- symbol store, raw symbols
\* The characters of a symbol text: white space, a lower-case and an
\* upper-case letter.
Chars == {" ", "a", "A"}
RawSymbols == UNION {[1..n -> Chars] : n \in 0..MaxRaw}

\* str::trim
RECURSIVE Trim(_)
Trim(s) ==
  IF s = << >> THEN s
  ELSE IF Head(s) = " " THEN Trim(Tail(s))
  ELSE IF s[Len(s)] = " " THEN Trim(SubSeq(s, 1, Len(s) - 1))
  ELSE s

\* str::to_uppercase
ToUppercase(s) == [i \in 1..Len(s) |-> IF s[i] = "a" THEN "A" ELSE s[i]]

\* normalize without to_uppercase.
NormalizeTrimOnly(symbol) == Trim(symbol)

\* SymbolStore::normalize: symbol.trim().to_uppercase()
Normalize(symbol) == ToUppercase(Trim(symbol))

\* redis SADD / SREM of one member: how many members were added / removed.
SAdd(set, member) == IF member \in set THEN 0 ELSE 1
SRem(set, member) == IF member \in set THEN 1 ELSE 0

\* redis SMEMBERS into a Vec, in whatever order redis uses.
RECURSIVE SMembers(_)
SMembers(set) ==
  IF set = {} THEN << >>
  ELSE LET m == CHOOSE x \in set : TRUE
       IN <<m>> \o SMembers(set \ {m})

\* SymbolStore::add(symbol): sadd of the normalized symbol, Ok(added == 1)
AddCall(symbol) ==
  LET sym == Normalize(symbol)
  IN /\ storeOps < MaxCalls
     /\ storeOps' = storeOps + 1
     /\ call' = [fn |-> "add", symbol |-> symbol]
     /\ ret' = [fn |-> "add", value |-> SAdd(watchlist, sym) = 1]
     /\ watchlist' = watchlist \cup {sym}
     /\ UNCHANGED <<engineVars, sessionVars>>

\* SymbolStore::remove(symbol): srem of the normalized symbol, Ok(removed == 1)
RemoveCall(symbol) ==
  LET sym == Normalize(symbol)
  IN /\ storeOps < MaxCalls
     /\ storeOps' = storeOps + 1
     /\ call' = [fn |-> "remove", symbol |-> symbol]
     /\ ret' = [fn |-> "remove", value |-> SRem(watchlist, sym) = 1]
     /\ watchlist' = watchlist \ {sym}
     /\ UNCHANGED <<engineVars, sessionVars>>

\* SymbolStore::list(): smembers
ListCall ==
  /\ storeOps < MaxCalls
  /\ storeOps' = storeOps + 1
  /\ call' = [fn |-> "list"]
  /\ ret' = [fn |-> "list", value |-> SMembers(watchlist)]
  /\ UNCHANGED <<watchlist, engineVars, sessionVars>>

InitSymbols ==
  /\ InitScan
  /\ site = "trigger"
  /\ InitLib
  /\ InitSessions
  /\ watchlist = {}

NextSymbols ==
  \/ \E symbol \in RawSymbols : AddCall(symbol)
  \/ \E symbol \in RawSymbols : RemoveCall(symbol)
  \/ ListCall

SpecSymbols == InitSymbols /\ [][NextSymbols]_vars

\* ------------------------------------ pending delete, command by command
\* What a selection may hold: up to MaxPick symbol texts.
Selections == {v \in SUBSET RawSymbols : Cardinality(v) \in 1..MaxPick}

\* handle_component, select menu, up to the first await of
\* set_pending_delete: the session id from the user and the second, the
\* symbols normalized, the del command issued.  (An empty selection returns
\* at once.)
SelectBegins(user_id, values) ==
  /\ values # {}
  /\ Len(setting) < MaxSelects
  /\ setting' = Append(setting, [id |-> ReqId(user_id, clock),
                                 symbols |-> {Normalize(v) : v \in values},
                                 at |-> "del"])
  /\ UNCHANGED <<pending, clock, ticks, reply, accepted, storeVars, engineVars,
                 libVars>>

\* `self.client.del(del_key).await?` of call c returns.
DelReturns(c, ok) ==
  /\ setting[c].at = "del"
  /\ pending' = IF ok THEN Del(pending, setting[c].id) ELSE pending
  /\ setting' = [setting EXCEPT ![c].at =
                   IF ~ok THEN "err"
                   ELSE IF setting[c].symbols = {} THEN "expire" ELSE "sadd"]
  /\ UNCHANGED <<clock, ticks, reply, accepted, storeVars, engineVars, libVars>>

\* `self.client.sadd(del_key, symbols).await?` of call c returns.
SAddReturns(c, ok) ==
  /\ setting[c].at = "sadd"
  /\ pending' = IF ok THEN SAddAll(pending, setting[c].id, setting[c].symbols)
                ELSE pending
  /\ setting' = [setting EXCEPT ![c].at = IF ok THEN "expire" ELSE "err"]
  /\ UNCHANGED <<clock, ticks, reply, accepted, storeVars, engineVars, libVars>>

\* `self.client.expire(del_key, 300, None).await?` of call c returns; after
\* Ok the handler shows the confirm prompt.
ExpireReturns(c, ok) ==
  /\ setting[c].at = "expire"
  /\ pending' = IF ok THEN Expire(pending, setting[c].id) ELSE pending
  /\ setting' = [setting EXCEPT ![c].at = IF ok THEN "done" ELSE "err"]
  /\ reply' = IF ok THEN [kind |-> "prompt", symbols |-> setting[c].symbols]
              ELSE reply
  /\ UNCHANGED <<clock, ticks, accepted, storeVars, engineVars, libVars>>

InitPending ==
  /\ InitScan
  /\ site = "trigger"
  /\ InitLib
  /\ InitSessions
  /\ watchlist = {}

NextPending ==
  \/ \E u \in Users : \E values \in Selections : SelectBegins(u, values)
  \/ \E c \in DOMAIN setting : \E ok \in BOOLEAN : DelReturns(c, ok)
  \/ \E c \in DOMAIN setting : \E ok \in BOOLEAN : SAddReturns(c, ok)
  \/ \E c \in DOMAIN setting : \E ok \in BOOLEAN : ExpireReturns(c, ok)

SpecPending == InitPending /\ [][NextPending]_vars

\* ------------------------------------------------------------------ claims
Started == {s \in Symbols : fetchCalls[s] > 0}
Rendered == {s \in Symbols : renderCalls[s] > 0}
Ended(how) == {s \in DOMAIN result : result[s] = how}
BatchesAt == {i \in 1..Len(outbox) : outbox[i].kind = "batch"}
TextsAt == {i \in 1..Len(outbox) : outbox[i].kind = "text"}
FullAt == {i \in BatchesAt : Len(outbox[i].embeds) = BATCH_SIZE}
ScanOver == pc \in {"done", "err"} /\ listResult = "Ok"

\* C1: in every reachable state of a scan the symbol-tasks that were started
\* and have not yielded their result number at most CONCURRENCY.
C1_ConcurrencyCap ==
  /\ Cardinality(DOMAIN task) <= CONCURRENCY
  /\ Cardinality(Started \ DOMAIN result) <= CONCURRENCY

\* The cap binds: CONCURRENCY tasks in flight, results already consumed, and
\* symbols still waiting in the stream.
C1_Witness ==
  /\ Cardinality(DOMAIN task) = CONCURRENCY
  /\ processed > 0
  /\ next <= Len(symbols)

\* C2: when a scan that obtained its symbol list ends, the loop has consumed
\* exactly one result per captured symbol.
C2_OneResultPerSymbol ==
  ScanOver => processed = Len(symbols) /\ DOMAIN result = Range(symbols)

\* C3: the step in which a task fails leaves every sibling task in flight
\* with its awaited call, leaves the results already given untouched and does
\* not end the scan in an error; a scan that ends normally has a result for
\* every symbol.
C3_FailureIsolated ==
  /\ [](pc = "done" => DOMAIN result = Range(symbols))
  /\ [][\A s \in DOMAIN task :
          (s \in DOMAIN result' /\ result'[s] = "Failed") =>
            /\ pc' # "err"
            /\ \A t \in DOMAIN task \ {s} : t \in DOMAIN task' /\ task'[t] = task[t]
            /\ \A t \in DOMAIN result : t \in DOMAIN result' /\ result'[t] = result[t]
            /\ processed' = processed + 1]_vars

\* One failure among five or more symbols, the others all hits, scan done.
C3_Witness ==
  /\ pc = "done"
  /\ Cardinality(Ended("Failed")) = 1
  /\ Cardinality(Ended("Hit")) >= 4

\* C4: at scan end the failures counter equals the number of symbols whose
\* fetch or render failed.
C4_FailuresCounted ==
  pc = "done" => failures = Cardinality(Ended("Failed"))

\* C5: neither accumulator nor any message handed to the delivery surface
\* ever holds more than BATCH_SIZE embeds or attachments.
C5_BatchCap ==
  /\ Len(embeds) <= BATCH_SIZE
  /\ Len(attachments) <= BATCH_SIZE
  /\ \A i \in 1..Len(outbox) :
       /\ Len(outbox[i].embeds) <= BATCH_SIZE
       /\ Len(outbox[i].attachments) <= BATCH_SIZE

\* A full batch was submitted and the scan went on to consume more results.
C5_Witness ==
  /\ FullAt # {}
  /\ processed > BATCH_SIZE

\* C6: with H the hits consumed so far, floor(H / BATCH_SIZE) full batches
\* have been submitted, each at the moment the accumulator reached
\* BATCH_SIZE; while the loop runs the accumulator holds the other
\* H mod BATCH_SIZE artifacts and no partial batch was sent; once the symbols
\* are exhausted exactly one partial batch of H mod BATCH_SIZE artifacts is
\* submitted, last, if and only if H mod BATCH_SIZE > 0.
C6_BatchCount ==
  LET partial == BatchesAt \ FullAt
  IN /\ hits = Cardinality(Ended("Hit"))
     /\ Cardinality(FullAt) = hits \div BATCH_SIZE
     /\ pc \in {"loop", "flush"} =>
          /\ Len(embeds) = hits % BATCH_SIZE
          /\ partial = {}
     /\ pc \in {"final", "done", "err"} =>
          /\ embeds = << >>
          /\ Cardinality(partial) = IF hits % BATCH_SIZE > 0 THEN 1 ELSE 0
          /\ \A i \in partial :
               /\ i = Len(outbox)
               /\ Len(outbox[i].embeds) = hits % BATCH_SIZE
     /\ pc \in {"final", "done"} => DOMAIN result = Range(symbols)

\* A scan with BATCH_SIZE + 1 hits has ended: one full batch, one partial.
C6_Witness ==
  /\ pc = "done"
  /\ hits = BATCH_SIZE + 1
  /\ Len(outbox) = 2
  /\ Len(outbox[1].embeds) = BATCH_SIZE
  /\ Len(outbox[2].embeds) = 1

\* C7: a scan over a non-empty symbol set that ended with zero hits has sent
\* exactly one "no signals" notification and no batch.
C7_NoSignalsOnce ==
  (pc = "done" /\ listResult = "Ok" /\ Len(symbols) > 0 /\ hits = 0) =>
    Cardinality(TextsAt) = 1 /\ BatchesAt = {}

\* C8: a scan in which the send of a batch failed still consumes the result
\* of every symbol, and no artifact is submitted in two batches.
C8_FlushFailureContinues ==
  /\ (ScanOver /\ \E i \in BatchesAt : outbox[i].status = "failed") =>
       processed = Len(symbols)
  /\ \A i, j \in BatchesAt :
       i # j => Range(outbox[i].embeds) \cap Range(outbox[j].embeds) = {}

\* C9: when list() fails the scan has ended in an error with no task started,
\* no fetch, no render, no result consumed and nothing handed to the surface.
C9_ListFailureAborts ==
  listResult = "Err" =>
    /\ pc = "err"
    /\ DOMAIN task = {}
    /\ next = 1
    /\ Started = {}
    /\ Rendered = {}
    /\ processed = 0
    /\ outbox = << >>

\* list() failed although the store holds symbols to scan.
C9_Witness ==
  /\ listResult = "Err"
  /\ watchlist # {}

\* C10: a scan calls list() exactly once; the captured Vec never changes, only
\* captured symbols are fetched or get a result, and a scan that exhausts its
\* stream has fetched and consumed exactly the captured symbols, whatever
\* add and remove did to the store meanwhile.
C10_CapturedSet ==
  /\ [](/\ listCalls <= 1
        /\ pc # "idle" /\ listResult # "none" => listCalls = 1
        /\ Started \subseteq Range(symbols)
        /\ DOMAIN result \subseteq Range(symbols)
        /\ pc \in {"final", "done"} =>
             /\ Started = Range(symbols)
             /\ DOMAIN result = Range(symbols)
             /\ processed = Len(symbols))
  /\ [][pc # "idle" => symbols' = symbols /\ listCalls' = listCalls]_vars

\* The store no longer holds the captured set while the loop is still
\* consuming results.
C10_Witness ==
  /\ pc = "loop"
  /\ processed > 0
  /\ storeOps > 0
  /\ watchlist # Range(symbols)

\* C20: whenever the loop waits for the next result, the backlog is empty or
\* CONCURRENCY tasks are in flight; and the step that consumes one result with
\* symbols left over starts the next symbol of the one backlog at once, with
\* every other task still in flight where it was.
C20_EagerAdmission ==
  /\ [](pc = "loop" =>
         ~(next <= Len(symbols) /\ Cardinality(DOMAIN task) < CONCURRENCY))
  /\ [][(pc = "loop" /\ pc' = "loop" /\ processed' = processed + 1
           /\ next <= Len(symbols)) =>
          /\ next' = next + 1
          /\ symbols[next] \in DOMAIN task' \ DOMAIN task
          /\ task'[symbols[next]] = "fetch"
          /\ Cardinality(DOMAIN task') = Cardinality(DOMAIN task)
          /\ \A t \in DOMAIN task \cap DOMAIN task' : task'[t] = task[t]]_vars

\* A symbol beyond the first CONCURRENCY is in flight beside an older task
\* that has not finished, a younger sibling of which has.
C20_Witness ==
  /\ pc = "loop"
  /\ \E a, b, c \in Symbols :
       /\ a < b /\ b < c /\ c > CONCURRENCY
       /\ a \in DOMAIN task
       /\ b \in DOMAIN result
       /\ c \in DOMAIN task

\* C11: every scan that obtained its symbol list eventually ends with the
\* result of every captured symbol consumed, whatever the tasks and the sends
\* returned.
C11_ScanCompletes ==
  (listResult = "Ok") ~> (pc \in {"done", "err"} /\ processed = Len(symbols))

\* The hits of a scan in the order the loop consumed them.
RECURSIVE Flatten(_)
Flatten(ob) ==
  IF ob = << >> THEN << >> ELSE Head(ob).embeds \o Flatten(Tail(ob))

HitOrder == Flatten(outbox) \o embeds

\* What the scan handed to the surface, without the delivery status.
Submitted ==
  [i \in 1..Len(outbox) |-> [kind |-> outbox[i].kind, embeds |-> outbox[i].embeds]]

\* C12: a scan that has ended, on either call site, has submitted exactly the
\* messages run_daily submits for the same hits in the same completion order,
\* has consumed every captured symbol, and has ended in an error exactly when
\* run_daily does for the same delivery outcomes.
C12_SameEngine ==
  ScanOver =>
    /\ Submitted = DailyMessages(HitOrder)
    /\ processed = Len(symbols)
    /\ (pc = "err") = DailyFails(outbox)

\* C13: calculate returns None exactly for a series of fewer than two points,
\* and one of Buy, Sell, BullishZone, BearishZone for every longer one.
C13_NoneIffShort ==
  ret.fn = "calculate" =>
    /\ (ret.signal = "None") = (Len(call.closes) < 2)
    /\ Len(call.closes) >= 2 =>
         ret.signal \in {"Buy", "Sell", "BullishZone", "BearishZone"}

\* calculate has answered for a series of exactly two points.
C13_Witness ==
  /\ ret.fn = "calculate"
  /\ Len(call.closes) = 2
  /\ ret.signal = "Buy"

\* The cases of the specification on the last two points of both series.
BuyCase(pf, ps, cf, cs) == Le(pf, ps) /\ Gt(cf, cs)
SellCase(pf, ps, cf, cs) == Ge(pf, ps) /\ Lt(cf, cs)
BullishCase(pf, ps, cf, cs) == Gt(cf, cs) /\ ~BuyCase(pf, ps, cf, cs)
BearishCase(pf, ps, cf, cs) ==
  ~(BuyCase(pf, ps, cf, cs) \/ SellCase(pf, ps, cf, cs)
      \/ BullishCase(pf, ps, cf, cs))

\* The signal sig is the one the case analysis gives for the series.
DecidedByLastTwo(fast, slow, sig) ==
  LET pf == fast[Len(fast) - 1]
      ps == slow[Len(fast) - 1]
      cf == fast[Len(fast)]
      cs == slow[Len(fast)]
  IN /\ (sig = "Buy") = BuyCase(pf, ps, cf, cs)
     /\ (sig = "Sell") = SellCase(pf, ps, cf, cs)
     /\ (sig = "BullishZone") = BullishCase(pf, ps, cf, cs)
     /\ (sig = "BearishZone") = BearishCase(pf, ps, cf, cs)
     /\ ~(BuyCase(pf, ps, cf, cs) /\ SellCase(pf, ps, cf, cs))

\* C14: the signal of a series of at least two points is decided by the last
\* two points of the fast and the slow series: Buy for prev_fast <= prev_slow
\* and cur_fast > cur_slow, Sell for prev_fast >= prev_slow and
\* cur_fast < cur_slow, BullishZone for cur_fast > cur_slow without a cross,
\* BearishZone otherwise; fast 1,1,3 over slow 2,2,2 is Buy and fast 3,3,1
\* over slow 2,2,2 is Sell.
C14_Crossover ==
  /\ (ret.fn = "crossover" /\ Len(call.fast) >= 2) =>
       /\ DecidedByLastTwo(call.fast, call.slow, ret.signal)
       /\ (call.fast = Exact(<<1, 1, 3>>) /\ call.slow = Exact(<<2, 2, 2>>)) =>
            ret.signal = "Buy"
       /\ (call.fast = Exact(<<3, 3, 1>>) /\ call.slow = Exact(<<2, 2, 2>>)) =>
            ret.signal = "Sell"
  /\ (ret.fn = "calculate" /\ Len(call.closes) >= 2) =>
       DecidedByLastTwo(ret.ema12, ret.ema26, ret.signal)

\* The signal has been decided for fast 1,1,3 over slow 2,2,2.
C14_Witness ==
  /\ ret.fn = "crossover"
  /\ call.fast = Exact(<<1, 1, 3>>)
  /\ call.slow = Exact(<<2, 2, 2>>)
  /\ ret.signal = "Buy"

\* The four series handed to generate_chart have one length.
SameLength(c) ==
  /\ Len(c.prices) = Len(c.ema12)
  /\ Len(c.prices) = Len(c.ema26)
  /\ Len(c.prices) = Len(c.dates)

\* C15 as claimed: generate_chart fails with the length-mismatch error
\* whenever the four series are not of one length, fails with the empty-input
\* error whenever the prices are empty, and gives bytes only for four
\* non-empty series of one length.
C15_ChartErrors ==
  ret.fn = "generate_chart" =>
    /\ ~SameLength(call) => ~ret.ok /\ ret.error = "length mismatch"
    /\ call.prices = << >> => ~ret.ok /\ ret.error = "prices is empty"
    /\ ret.ok => SameLength(call) /\ call.prices # << >>

\* C15, amended: generate_chart fails with the empty-input error whenever the
\* prices are empty, whatever the other lengths; it fails with the
\* length-mismatch error whenever the prices are not empty and the four
\* series are not of one length; it gives bytes only for four non-empty
\* series of one length.
C15_ChartErrorsInOrder ==
  ret.fn = "generate_chart" =>
    /\ call.prices = << >> => ~ret.ok /\ ret.error = "prices is empty"
    /\ (call.prices # << >> /\ ~SameLength(call)) =>
         ~ret.ok /\ ret.error = "length mismatch"
    /\ ret.ok => SameLength(call) /\ call.prices # << >> /\ ret.bytes # << >>

\* generate_chart has refused empty prices beside dates that are not empty.
C15_Witness ==
  /\ ret.fn = "generate_chart"
  /\ call.prices = << >>
  /\ call.dates # << >>
  /\ ~ret.ok
  /\ ret.error = "prices is empty"

\* C16: a confirm pressed by anyone but the owner named in the session id is
\* denied and changes neither the watchlist nor the pending session; a step
\* that accepts a confirm or takes symbols off the watchlist is a confirm by
\* the owner of its session id.
C16_OwnerOnly ==
  /\ [][\A u \in Users : \A id \in DOMAIN pending :
          (ConfirmDelete(u, id) /\ Owner(id) # Decimal(u)) =>
             /\ reply'.kind = "denied"
             /\ watchlist' = watchlist
             /\ pending' = pending
             /\ accepted' = accepted]_vars
  /\ [][(accepted' \ accepted # {} \/ (watchlist' # watchlist
                                        /\ watchlist' \subseteq watchlist)) =>
          \E u \in Users : \E id \in DOMAIN pending :
            ConfirmDelete(u, id) /\ Owner(id) = Decimal(u)]_vars

\* Someone else's confirm has been denied while the session is alive and its
\* symbols are on the watchlist.
C16_Witness ==
  /\ reply.kind = "denied"
  /\ \E id \in DOMAIN pending :
       /\ GetPendingDelete(id).some
       /\ pending[id].symbols \subseteq watchlist

\* C17: once a confirm has been accepted for a session id the session is
\* gone: get_pending_delete finds nothing under the id, and every later
\* confirm for it is answered without a symbol leaving the watchlist.
C17_SingleUse ==
  /\ [](\A id \in accepted : ~GetPendingDelete(id).some)
  /\ [][\A u \in Users : \A id \in accepted :
          ConfirmDelete(u, id) =>
            reply'.kind \in {"denied", "expired"} /\ watchlist' = watchlist]_vars

IsNormalized(s) ==
  /\ s # << >> => s[1] # " " /\ s[Len(s)] # " "
  /\ \A i \in 1..Len(s) : s[i] # "a"

\* C19: after any sequence of add and remove calls every member of the
\* watchlist is trimmed and upper-case; add(s) returns true exactly when
\* normalize(s) was not a member and leaves it one, remove(s) returns true
\* exactly when normalize(s) was a member and leaves it none, and list()
\* returns exactly the members, each once.
C19_NormalizedSet ==
  /\ [](\A s \in watchlist : IsNormalized(s))
  /\ [][\A s \in RawSymbols :
          /\ AddCall(s) =>
               /\ ret'.value = (Normalize(s) \notin watchlist)
               /\ watchlist' = watchlist \cup {Normalize(s)}
          /\ RemoveCall(s) =>
               /\ ret'.value = (Normalize(s) \in watchlist)
               /\ watchlist' = watchlist \ {Normalize(s)}]_vars
  /\ [][ListCall =>
          /\ Range(ret'.value) = watchlist
          /\ Len(ret'.value) = Cardinality(watchlist)
          /\ watchlist' = watchlist]_vars

\* add has returned false for a text that is not normalized itself but whose
\* normalized form was already a member.
C19_Witness ==
  /\ ret.fn = "add"
  /\ ~ret.value
  /\ call.symbol # Normalize(call.symbol)
  /\ Normalize(call.symbol) \in watchlist
  /\ storeOps > 1

\* C21: results are consumed in completion order. A task that completes with
\* a hit puts its artifact behind every artifact handed over or accumulated
\* so far, whatever its place in the submission order; no step reorders or
\* removes an artifact, inside a batch or across batches.
C21_CompletionOrder ==
  [][\/ HitOrder' = HitOrder
     \/ \E s \in DOMAIN result' \ DOMAIN result :
          /\ result'[s] = "Hit"
          /\ HitOrder' = Append(HitOrder, s)]_vars

\* A batch handed over in which a later-submitted symbol, having completed
\* first, comes before an earlier-submitted one.
C21_Witness ==
  \E k \in 1..Len(outbox) :
    /\ outbox[k].kind = "batch"
    /\ \E i, j \in 1..Len(outbox[k].embeds) :
         i < j /\ outbox[k].embeds[i] > outbox[k].embeds[j]

\* The step takes task s on to its next await, or out of the buffer.
Stepped(s) == s \notin DOMAIN task' \/ task'[s] # task[s]

\* The step ends task s with the result how.
EndsWith(s, how) ==
  s \notin DOMAIN result /\ s \in DOMAIN result' /\ result'[s] = how

\* What C22 says of a step in which the fetch of task s returns r.
C22_FetchEffect(s, r) ==
  /\ ~EndsWith(s, "Hit")
  /\ r = "Empty" =>
       /\ EndsWith(s, "Skipped")
       /\ evalCalls'[s] = 0
       /\ renderCalls'[s] = 0
  /\ r \in {"BullishZone", "BearishZone", "None"} =>
       /\ EndsWith(s, "Skipped")
       /\ evalCalls'[s] = 1
       /\ renderCalls'[s] = 0
  /\ r \in {"Buy", "Sell"} <=> renderCalls'[s] = renderCalls[s] + 1

\* C22: a task ends with a hit only in the step in which its render returns
\* bytes, after a fetch that gave a series with a Buy or Sell signal.  A
\* fetch that gives an empty series ends the task as skipped with neither
\* calculate nor generate_chart called; one that gives BullishZone,
\* BearishZone or None ends it as skipped with no generate_chart call; only
\* Buy and Sell issue the render.
C22_HitOnlyWhen ==
  [][\A s \in {t \in DOMAIN task : Stepped(t)} :
       /\ task[s] = "fetch" =>
            \A r \in FetchOutcome :
              C22_FetchEffect(s, r) \/ ~FetchReturns(s, r)
       /\ task[s] = "render" =>
            \A r \in RenderOutcome :
              (EndsWith(s, "Hit") <=> r = "Bytes") \/ ~RenderReturns(s, r)
       /\ EndsWith(s, "Hit") =>
            /\ task[s] = "render"
            /\ fetchCalls[s] = 1 /\ evalCalls[s] = 1 /\ renderCalls[s] = 1]_vars

\* A task skipped over an empty series, with no calculate and no render call,
\* beside a task that ended with a hit after its one render.
C22_Witness ==
  \E s, u \in DOMAIN result :
    /\ result[s] = "Skipped" /\ evalCalls[s] = 0 /\ renderCalls[s] = 0
    /\ result[u] = "Hit" /\ renderCalls[u] = 1

\* The result the outcomes f of a task's own fetch and r of its own render
\* determine ("none": the task made no render call).
OwnResult(f, r) ==
  IF f = "FetchErr" THEN "Failed"
  ELSE IF f \notin {"Buy", "Sell"} THEN "Skipped"
  ELSE IF r = "Bytes" THEN "Hit"
  ELSE "Failed"

\* C23: the result of a symbol depends on the outcomes of its own fetch and
\* render only.  In every reachable state, whatever the other tasks have done
\* and in whatever order, the step that ends task s gives it the result its
\* own outcomes determine, and no later step of any task changes it.
C23_OwnOutcomeOnly ==
  [][/\ \A s \in DOMAIN result :
          s \in DOMAIN result' /\ result'[s] = result[s]
     /\ \A s \in {t \in DOMAIN task : Stepped(t)} :
          /\ task[s] = "fetch" =>
               \A f \in FetchOutcome :
                 \/ f \in {"Buy", "Sell"} /\ s \notin DOMAIN result'
                 \/ EndsWith(s, OwnResult(f, "none"))
                 \/ ~FetchReturns(s, f)
          /\ task[s] = "render" =>
               \A r \in RenderOutcome :
                 EndsWith(s, OwnResult("Buy", r)) \/ ~RenderReturns(s, r)]_vars

\* A task whose render failed has its result beside tasks that ended with a
\* hit, one submitted before it and one after it, while others are in flight.
C23_Witness ==
  \E s, u, v \in DOMAIN result :
    /\ s < u /\ u < v
    /\ result[s] = "Hit" /\ result[v] = "Hit"
    /\ result[u] = "Failed" /\ renderCalls[u] = 1
    /\ DOMAIN task # {}

\* Task s waits for the call named.
Awaits(s, what) == s \in DOMAIN task /\ task[s] = what

\* C24: the steps of one task are strictly sequential.  While its fetch is
\* awaited nothing has been evaluated or rendered; calculate has run only
\* once the fetch has returned; a render has been started only after
\* calculate has run; and a task has a result only when no call of it is
\* awaited any more: after its render for a hit or a render failure, after
\* the step that skipped or failed it otherwise.
C24_Sequential ==
  \A s \in Symbols :
    /\ Awaits(s, "fetch") =>
         fetchCalls[s] = 1 /\ evalCalls[s] = 0 /\ renderCalls[s] = 0
    /\ evalCalls[s] > 0 => fetchCalls[s] > 0 /\ ~Awaits(s, "fetch")
    /\ renderCalls[s] > 0 => evalCalls[s] > 0
    /\ Awaits(s, "render") => renderCalls[s] = 1 /\ s \notin DOMAIN result
    /\ s \in DOMAIN result =>
         /\ s \notin DOMAIN task
         /\ fetchCalls[s] = 1
         /\ result[s] = "Hit" => renderCalls[s] = 1
         /\ result[s] = "Skipped" => renderCalls[s] = 0

\* One task has its result, one waits for its render with its fetch and
\* evaluation behind it, one still waits for its fetch.
C24_Witness ==
  \E s, u, v \in Symbols :
    /\ s \in DOMAIN result /\ result[s] = "Hit"
    /\ Awaits(u, "render") /\ evalCalls[u] = 1
    /\ Awaits(v, "fetch")

\* No element of the sequence occurs twice.
NoRepeat(q) == \A i, j \in 1..Len(q) : q[i] = q[j] => i = j

\* C25: a batch is never reused after its flush.  While the send of a full
\* batch is awaited the accumulators are empty and the message holds all
\* BATCH_SIZE artifacts; the same after the loop for what was left over; and
\* no artifact occurs twice among the batches handed over and the
\* accumulators, embeds and attachments alike.
C25_NoReuse ==
  /\ pc = "flush" =>
       /\ embeds = << >> /\ attachments = << >>
       /\ outbox[Len(outbox)].kind = "batch"
       /\ Len(outbox[Len(outbox)].embeds) = BATCH_SIZE
       /\ Len(outbox[Len(outbox)].attachments) = BATCH_SIZE
  /\ pc = "final" => embeds = << >> /\ attachments = << >>
  /\ NoRepeat(HitOrder)
  /\ \A i \in BatchesAt : outbox[i].attachments = outbox[i].embeds
  /\ attachments = embeds

\* A full batch has been handed over and, after it, a batch with the hit of
\* a later task.
C25_Witness ==
  \E i \in FullAt : \E j \in BatchesAt :
    /\ i < j
    /\ outbox[j].embeds # << >>
    /\ embeds = << >>

\* C26: the accumulators and the counters are changed by the consuming loop
\* only, one result at a time.  A step consumes at most one result; a step
\* that consumes none, such as the step of a task from its fetch over
\* calculate to the start of its render, leaves embeds, attachments,
\* processed, hits and failures unchanged; a step that consumes one counts it
\* once, and changes the accumulators only for a hit or to hand them over.
C26_Frame ==
  [][LET ended == DOMAIN result' \ DOMAIN result
     IN /\ Cardinality(ended) <= 1
        /\ ended = {} =>
             UNCHANGED <<embeds, attachments, processed, hits, failures>>
        /\ \A s \in DOMAIN task :
             s \in DOMAIN task' /\ task'[s] # task[s] =>
               UNCHANGED <<embeds, attachments, processed, hits, failures>>
        /\ \A s \in ended :
             /\ processed' = processed + 1
             /\ hits' = IF result'[s] = "Hit" THEN hits + 1 ELSE hits
             /\ failures' \in {failures, failures + 1}
             /\ \/ embeds' = embeds /\ result'[s] # "Hit"
                \/ embeds' = Append(embeds, s) /\ result'[s] = "Hit"
                \/ embeds' = << >> /\ Len(outbox') = Len(outbox) + 1
             /\ attachments' = embeds']_vars
\* A task has gone on from its fetch to its render while the loop has consumed
\* results and holds hits in its accumulators.
C26_Witness ==
  /\ \E s \in Symbols : Awaits(s, "render")
  /\ embeds # << >>
  /\ processed > hits

\* The symbols the stream has handed out so far.
Pulled == {symbols[i] : i \in 1..(next - 1)}

\* C27: the engine never retries.  In every reachable state each symbol has
\* at most one fetch_price call, one calculate call and one generate_chart
\* call; the symbols fetched are exactly those the stream has handed out;
\* and a task that has its result, a failure included, is not in flight
\* again.
C27_NoRetry ==
  /\ \A s \in Symbols :
       /\ fetchCalls[s] <= 1
       /\ evalCalls[s] <= 1
       /\ renderCalls[s] <= 1
       /\ fetchCalls[s] = 1 <=> s \in Pulled
  /\ DOMAIN result \cap DOMAIN task = {}
  /\ next <= Len(symbols) + 1

\* A scan has ended normally with a failed task: no call was made for it
\* after its failure.
C27_Witness ==
  /\ pc = "done"
  /\ \E s \in DOMAIN result : result[s] = "Failed" /\ fetchCalls[s] = 1
  /\ Cardinality(DOMAIN result) > 1

\* C30: wherever the consuming loop is suspended (at tasks.next() or at the
\* send of a full batch) embeds and attachments have the same length and
\* hits = BATCH_SIZE * (batches flushed so far) + (length of the accumulator).
C30_LoopInvariant ==
  pc \in {"loop", "flush"} =>
    /\ Len(embeds) = Len(attachments)
    /\ BatchesAt = FullAt
    /\ hits = BATCH_SIZE * Cardinality(BatchesAt) + Len(embeds)

\* The loop goes on, a task still in flight, after one full batch was flushed.
C30_Witness ==
  /\ pc = "loop"
  /\ Cardinality(BatchesAt) = 1
  /\ hits = BATCH_SIZE
  /\ DOMAIN task # {}

\* C28: for valid input generate_chart draws exactly the most recent
\* min(LOOKBACK, len) points.  It does not fail for want of data; the window
\* is not empty; the category axis, both EMA series and the price runs have
\* its length; and point i of each is point len - min(LOOKBACK, len) + i of
\* the input: its date, its two averages, and its price in the price runs.
C28_Window ==
  ret.fn = "generate_chart" =>
    LET len == Len(call.prices)
        w == Min(LOOKBACK, len)
    IN /\ ret.ok \/ ret.error = "render"
       /\ ret.ok =>
            /\ w > 0
            /\ Len(ret.chart.x_axis) = w
            /\ Len(ret.chart.ema12) = w
            /\ Len(ret.chart.ema26) = w
            /\ Len(ret.chart.price_green) = w
            /\ Len(ret.chart.price_red) = w
            /\ \A i \in 1..w :
                 /\ ret.chart.x_axis[i] = call.dates[len - w + i]
                 /\ ret.chart.ema12[i] = call.ema12[len - w + i]
                 /\ ret.chart.ema26[i] = call.ema26[len - w + i]
                 /\ {ret.chart.price_green[i], ret.chart.price_red[i]} \ {NAN}
                      = {call.prices[len - w + i]}

\* A chart of a series longer than LOOKBACK: the window starts after the
\* oldest points.
C28_Witness ==
  /\ ret.fn = "generate_chart"
  /\ ret.ok
  /\ Len(call.prices) = LOOKBACK + 2
  /\ Len(ret.chart.x_axis) = LOOKBACK
  /\ ret.chart.x_axis[1] = 3

\* C29: the price line is drawn in two runs.  Displayed point i is in the
\* trend-up run when ema12[i] > ema26[i] and in the trend-down run otherwise;
\* where the trend flips between i and i + 1, point i is in both runs; a
\* point is in both runs only there; and no point is missing from both.
C29_Segments ==
  ret.fn = "generate_chart" /\ ret.ok =>
    LET n == Len(ret.chart.ema12)
        bull(i) == ret.chart.ema12[i] > ret.chart.ema26[i]
        up(i) == ret.chart.price_green[i] # NAN
        down(i) == ret.chart.price_red[i] # NAN
        flip(i) == i < n /\ bull(i) # bull(i + 1)
    IN \A i \in 1..n :
         /\ bull(i) => up(i)
         /\ ~bull(i) => down(i)
         /\ flip(i) => up(i) /\ down(i)
         /\ up(i) /\ down(i) => flip(i)
         /\ up(i) \/ down(i)

\* A chart over the full window with a run of two points below the average
\* inside an upward trend: two flips, two points drawn in both runs.
C29_Witness ==
  /\ ret.fn = "generate_chart"
  /\ ret.ok
  /\ Len(ret.chart.ema12) = LOOKBACK
  /\ Cardinality({i \in 1..LOOKBACK :
                    /\ ret.chart.price_green[i] # NAN
                    /\ ret.chart.price_red[i] # NAN}) = 2
  /\ ret.chart.price_green[1] # NAN
  /\ ret.chart.price_green[LOOKBACK] # NAN

\* C31: a "No Buy/Sell signals found." reply has been handed to the delivery
\* surface only by a scan whose hits counter is 0.
C31_NoSignalsOnlyWithoutHits == TextsAt # {} => hits = 0

\* The messages whose send failed.
FailedAt == {i \in 1..Len(outbox) : outbox[i].status = "failed"}

\* C32: in a run_daily scan a failed send of a full batch does not end the
\* scan (every symbol is still processed, and the scan ends in an error only
\* through its last send); a failed send after the loop ends it in an error;
\* the artifacts of a failed batch are in no other message.
C32_DailyFlushSites ==
  (site = "daily" /\ listResult = "Ok") =>
    /\ \A i \in FailedAt : i < Len(outbox) => Len(outbox[i].embeds) = BATCH_SIZE
    /\ ScanOver => processed = Len(symbols)
    /\ pc = "err" <=>
         /\ outbox # << >>
         /\ Len(outbox) \in FailedAt
         /\ Len(outbox[Len(outbox)].embeds) < BATCH_SIZE
    /\ \A i \in FailedAt : \A j \in BatchesAt :
         i # j => Range(outbox[i].embeds) \cap Range(outbox[j].embeds) = {}

\* A run_daily scan over BATCH_SIZE + 1 hits in which both sends failed: the
\* first was passed over, the second ended the scan in an error.
C32_Witness ==
  /\ site = "daily"
  /\ pc = "err"
  /\ processed = BATCH_SIZE + 1
  /\ FailedAt = {1, 2}
  /\ Len(outbox[1].embeds) = BATCH_SIZE
  /\ Len(outbox[2].embeds) = 1

\* The calls of set_pending_delete made on key id.
CallsOn(id) == {c \in DOMAIN setting : setting[c].id = id}

\* C33: once every set_pending_delete call on a session id has returned Ok,
\* the key holds the normalized symbols of one of those calls, and its expiry
\* is PENDING_TTL seconds away.
C33_SetPendingAtomic ==
  \A c \in DOMAIN setting :
    (\A d \in CallsOn(setting[c].id) : setting[d].at = "done") =>
      /\ Exists(pending, setting[c].id)
      /\ \E d \in CallsOn(setting[c].id) :
           pending[setting[c].id].symbols = setting[d].symbols
      /\ "expires" \in DOMAIN pending[setting[c].id]
      /\ pending[setting[c].id].expires = Expiry(clock)

\* C34: no symbol named by a "was deleted" answer is on the watchlist (in
\* runs without /watch, where nothing puts a symbol back).
C34_DeletedIsAbsent ==
  reply.kind = "deleted" => reply.symbols \cap watchlist = {}

====
